---- MODULE Spec2Model ----
(***************************************************************************)
(* A model of j-u-p-iter/repl: the Repl class (src/src/Repl.ts), its       *)
(* Compiler adapter (src/unnamed/part_002) and the node:repl server it     *)
(* starts with a custom eval function.                                     *)
(*                                                                         *)
(* Input text is a sequence of lines of a small statement language; the    *)
(* V8 and node:repl behaviour the class relies on (vm.runInThisContext,    *)
(* RegExp.test, REPLServer's 'line' listener and its finish callback) is   *)
(* modelled at the call sites in the source.                               *)
(***************************************************************************)
EXTENDS Integers, Sequences, FiniteSets, TLC

VARIABLES
    customMethods,  \* Repl.customMethods: method name -> registered handler
    servers,        \* REPLServers created by start(): each its buffered command
    context,        \* the global scope every turn runs in (useGlobal: true)
    inflight,       \* suspended activations of evaluateCode
    lastCb,         \* the latest callback invocation of evaluateCode
    escapes,        \* errors that left evaluateCode as a rejected promise
    submitted,      \* lines read from the input stream so far
    lastAdd,        \* history: handler of the latest addMethod call per name
    probe,          \* the error put to isRecoverableError on its own
    verdict         \* what isRecoverableError answered for the probe

vars == <<customMethods, servers, context, inflight, lastCb, escapes,
          submitted, lastAdd, probe, verdict>>

-----------------------------------------------------------------------------
(* Bounds of the model *)

MaxTurns == 2
MaxRuns == 2
MaxPlainTurns == 3

-----------------------------------------------------------------------------
(* Values, errors, bindings *)

Val(t, v, s) == [t |-> t, v |-> v, s |-> s]
Num(n) == Val("number", n, "")
Str(s) == Val("string", 0, s)
Undefined == Val("undefined", 0, "")
Null == Val("null", 0, "")

\* A thrown value: an object with a name and a message, or null/undefined.
Err(name, message) == [nullish |-> FALSE, name |-> name, message |-> message]
ThrownNull == [nullish |-> TRUE, name |-> "", message |-> ""]
NoError == Err("", "")

\* What evaluateCode hands to the callback as its first argument.
Recoverable(error) == [wrapper |-> "Recoverable", err |-> error]
Plain(error) == [wrapper |-> "none", err |-> error]
NullErr == Plain(NoError)

MethodNames == {"notify"}
Handlers == {"hWrite", "hEcho"}
NoHandler == "none"
Session == "Repl"

Unbound == [kind |-> "unbound", val |-> Undefined, handler |-> NoHandler]
ValueBinding(v) == [kind |-> "value", val |-> v, handler |-> NoHandler]
FunctionBinding == [kind |-> "function", val |-> Undefined, handler |-> NoHandler]
MethodBinding(h) == [kind |-> "method", val |-> Undefined, handler |-> h]

ContextNames == {"x", "f"} \cup MethodNames

-----------------------------------------------------------------------------
(* Repl.isRecoverableError *)

\* String.prototype prefix match, as the anchored regular expression does it.
StartsWith(s, p) == Len(s) >= Len(p) /\ SubSeq(s, 1, Len(p)) = p

RecoverablePatterns == {"Unexpected end of input", "Unexpected token"}

Contains(s, p) ==
    \E i \in 1..(Len(s) - Len(p) + 1) : SubSeq(s, i, i + Len(p) - 1) = p

RegexTestUnanchored(message) == \E p \in RecoverablePatterns : Contains(message, p)

\* /^(Unexpected end of input|Unexpected token)/.test(message)
RegexTest(message) == \E p \in RecoverablePatterns : StartsWith(message, p)

isRecoverableError(error) ==
    IF error.name = "SyntaxError" THEN RegexTest(error.message) ELSE FALSE

\* Reading error.name of null or undefined throws a TypeError.
isRecoverableErrorThrows(error) == error.nullish

-----------------------------------------------------------------------------
(* The statement language of the turns, and how V8 runs it *)

LConst == "const x = 5"
LUse == "x + 1"
LOpen == "function f() {"
LClose == "}"
LJson == "JSON.parse('}')"
LAwait == "await p42"
LThrowNull == "throw null"
LCall(m) == m \o "('hi')"

Lines == {LConst, LUse, LOpen, LClose, LJson, LAwait, LThrowNull} \cup {LCall(m) : m \in MethodNames}

CallArgs == <<Str("hi")>>

\* Source text: the lines, and whether they sit inside the async wrapper that
\* the top-level-await rewrite puts around them.
Text(async, lines) == [async |-> async, lines |-> lines]

RECURSIVE ScanDepth(_, _, _)
\* Brace depth after lines i..Len(lines), entered at depth d; -1 when a "}"
\* closes nothing.
ScanDepth(lines, i, d) ==
    IF i > Len(lines) THEN d
    ELSE IF lines[i] = LOpen THEN ScanDepth(lines, i + 1, d + 1)
    ELSE IF lines[i] = LClose
         THEN IF d = 0 THEN -1 ELSE ScanDepth(lines, i + 1, d - 1)
    ELSE ScanDepth(lines, i + 1, d)

DepthBefore(lines, i) == ScanDepth(SubSeq(lines, 1, i - 1), 1, 0)

HasTopLevelAwait(lines) ==
    \E i \in 1..Len(lines) : lines[i] = LAwait /\ DepthBefore(lines, i) = 0

DeclaresConst(lines) ==
    \E i \in 1..Len(lines) : lines[i] = LConst /\ DepthBefore(lines, i) = 0

DeclaresFunction(lines) ==
    \E i \in 1..Len(lines) : lines[i] = LClose /\ DepthBefore(lines, i) = 1

\* A text whose braces do not balance does not parse.
BraceError(lines) ==
    LET d == ScanDepth(lines, 1, 0) IN
    IF d = -1 THEN Err("SyntaxError", "Unexpected token '}'")
    ELSE IF d > 0 THEN Err("SyntaxError", "Unexpected end of input")
    ELSE NoError

\* The parser's verdict on a text: the SyntaxError V8 throws, or NoError.
SyntaxErrorOf(text) ==
    IF BraceError(text.lines) # NoError THEN BraceError(text.lines)
    ELSE IF ~text.async /\ HasTopLevelAwait(text.lines)
         THEN Err("SyntaxError", "await is only valid in async functions and the top level bodies of modules")
    ELSE NoError

Out(kind, val, err) == [kind |-> kind, val |-> val, err |-> err]
Returned(v) == Out("value", v, NoError)
Thrown(e) == Out("throw", Undefined, e)

Param(args, i) == IF Len(args) >= i THEN args[i] ELSE Undefined

\* The handlers the host program registers: hWrite is the CLI's notify
\* handler, (_, param) => { console.log(param) }; hEcho is (_, param) => param.
HandlerReturn(handler, args) ==
    IF handler = "hEcho" THEN Param(args, 2) ELSE Undefined

\* Handlers that throw: hParse is (_, param) => JSON.parse(param), which throws
\* V8's SyntaxError for a param that is not JSON; hFail throws new Error("failed").
ThrowingHandlers == {"hParse", "hFail"}

\* What a handler call throws, NoError when it returns.
HandlerThrows(handler, args) ==
    IF handler = "hParse"
    THEN Err("SyntaxError", "Unexpected token h in JSON at position 0")
    ELSE IF handler = "hFail" THEN Err("Error", "failed")
    ELSE NoError

Invocation(handler, args) == [handler |-> handler, args |-> args]

\* What handlers wrote to the sink, from the invocation log.
Written(log) ==
    [i \in 1..Len(log) |->
        IF log[i].handler = "hWrite" THEN Param(log[i].args, 2) ELSE Null]

CallWrapperDropsSession(handler, args) ==
    [invocations |-> <<Invocation(handler, args)>>,
     ret |-> HandlerReturn(handler, args),
     err |-> HandlerThrows(handler, args)]

\* The callable registerCustomMethods binds: (...args) => handler(this, ...args)
CallWrapper(handler, args) ==
    [invocations |-> <<Invocation(handler, <<Str(Session)>> \o args)>>,
     ret |-> HandlerReturn(handler, <<Str(Session)>> \o args),
     err |-> HandlerThrows(handler, <<Str(Session)>> \o args)]

\* The running state of one script: the context, the handler invocations it
\* made, and its completion.
RunState(ctx, invocations, out) == [ctx |-> ctx, invocations |-> invocations, out |-> out]

ExecStatement(line, st) ==
    IF line = LConst
    THEN RunState([st.ctx EXCEPT !["x"] = ValueBinding(Num(5))], st.invocations,
                  Returned(Undefined))
    ELSE IF line = LUse
    THEN IF st.ctx["x"].kind = "value"
         THEN RunState(st.ctx, st.invocations, Returned(Num(st.ctx["x"].val.v + 1)))
         ELSE RunState(st.ctx, st.invocations,
                       Thrown(Err("ReferenceError", "x is not defined")))
    ELSE IF line = LJson
    THEN RunState(st.ctx, st.invocations,
                  Thrown(Err("SyntaxError", "Unexpected token } in JSON at position 0")))
    ELSE IF line = LAwait
    THEN RunState(st.ctx, st.invocations, Returned(Num(42)))
    ELSE IF line = LThrowNull
    THEN RunState(st.ctx, st.invocations, Thrown(ThrownNull))
    ELSE LET m == CHOOSE n \in MethodNames : line = LCall(n) IN
         IF st.ctx[m].kind = "method"
         THEN LET c == CallWrapper(st.ctx[m].handler, CallArgs) IN
              RunState(st.ctx, st.invocations \o c.invocations,
                       IF c.err # NoError THEN Thrown(c.err) ELSE Returned(c.ret))
         ELSE RunState(st.ctx, st.invocations,
                       Thrown(Err("ReferenceError", m \o " is not defined")))

RECURSIVE RunFrom(_, _, _, _)
\* Runs the top-level statements of lines i.. in order and stops at the first
\* throw; the lines of a function body are not run.
RunFrom(lines, i, d, st) ==
    IF i > Len(lines) \/ st.out.kind = "throw" THEN st
    ELSE IF lines[i] = LOpen THEN RunFrom(lines, i + 1, d + 1, st)
    ELSE IF lines[i] = LClose
         THEN RunFrom(lines, i + 1, d - 1,
                      IF d = 1 THEN RunState(st.ctx, st.invocations, Returned(Undefined))
                      ELSE st)
    ELSE IF d > 0 THEN RunFrom(lines, i + 1, d, st)
    ELSE RunFrom(lines, i + 1, d, ExecStatement(lines[i], st))

\* Function declarations are bound before the first statement runs.
Hoisted(lines, ctx) ==
    IF DeclaresFunction(lines) THEN [ctx EXCEPT !["f"] = FunctionBinding] ELSE ctx

RunInNewContext(text, ctx) ==
    LET fresh == [n \in ContextNames |-> Unbound]
        st == RunFrom(text.lines, 1, 0, RunState(fresh, <<>>, Returned(Undefined)))
    IN  IF SyntaxErrorOf(text) # NoError
        THEN RunState(ctx, <<>>, Thrown(SyntaxErrorOf(text)))
        ELSE RunState(fresh, st.invocations, st.out)

\* vm.runInThisContext(compiledCode): parse, then run against the global scope.
\* A text inside the async wrapper completes with a promise that settles with
\* the wrapper body's completion.
runInThisContext(text, ctx) ==
    IF SyntaxErrorOf(text) # NoError
    THEN RunState(ctx, <<>>, Thrown(SyntaxErrorOf(text)))
    ELSE IF DeclaresConst(text.lines) /\ ctx["x"].kind # "unbound"
    THEN RunState(ctx, <<>>,
                  Thrown(Err("SyntaxError", "Identifier 'x' has already been declared")))
    ELSE LET st == RunFrom(text.lines, 1, 0,
                           RunState(Hoisted(text.lines, ctx), <<>>, Returned(Undefined)))
         IN  IF text.async
             THEN RunState(st.ctx, st.invocations, Out("promise", st.out.val, st.out.err))
             ELSE st

-----------------------------------------------------------------------------
(* Compiler.compile *)

NoRewrite == [rewritten |-> FALSE, text |-> Text(FALSE, <<>>)]

\* processTopLevelAwait(code): null when the code does not parse or holds no
\* top-level await, else the code inside an async wrapper.
processTopLevelAwait(code) ==
    IF BraceError(code.lines) = NoError /\ HasTopLevelAwait(code.lines)
    THEN [rewritten |-> TRUE, text |-> Text(TRUE, code.lines)]
    ELSE NoRewrite

\* What the injected compiler does with a call: it is the host's collaborator.
\* "ok" returns the executable text, "diagnostic" fails with a compiler
\* diagnostic, "syntax" reports the parser's error for a text that does not parse.
CompileChoices == {"ok", "diagnostic", "syntax"}

Compiled(ok, text, err) == [ok |-> ok, text |-> text, err |-> err]

tsCompile(fileName, text, choice) ==
    IF choice = "diagnostic"
    THEN Compiled(FALSE, text, Err("TSError", "Unable to compile TypeScript"))
    ELSE IF choice = "syntax" /\ SyntaxErrorOf(text) # NoError
    THEN Compiled(FALSE, text, SyntaxErrorOf(text))
    ELSE Compiled(TRUE, text, NoError)

resultCodeAlwaysWrapped(code) == Text(TRUE, code.lines)

\* const resultCode = processTopLevelAwait(code) || code
resultCode(code) ==
    IF processTopLevelAwait(code).rewritten THEN processTopLevelAwait(code).text ELSE code

\* The calls Compiler.compile makes on the injected compiler, in order:
\* this.tsCompiler.compile(fileName, resultCode).
compilerCalls(fileName, code) ==
    <<[fileName |-> fileName, text |-> resultCode(code)]>>

\* Compiler.compile(fileName, code): the compiler's input and its outcome.
compile(fileName, code, choice) ==
    [calls |-> compilerCalls(fileName, code),
     input |-> [fileName |-> fileName, text |-> resultCode(code)],
     out |-> tsCompile(fileName, resultCode(code), choice)]

-----------------------------------------------------------------------------
(* Repl.evaluateCode, step by step, and the REPLServer that calls it *)

\* The resource name the server passes as fileName: one per server.
FileName(srv) == <<"REPL", srv>>

TurnId(turn, srv) == [turn |-> turn, srv |-> srv]

\* The steps of evaluateCode that sit inside its try block.
TryCovers(stage) == stage \in {"compile", "execute", "await"}

CallbackArgs(err, result) == [err |-> err, result |-> result]

CatchBlockNeverRecoverable(error) == CallbackArgs(Plain(error), Null)

CatchBlockAsResult(error) ==
    IF isRecoverableError(error)
    THEN CallbackArgs(NullErr, Undefined)
    ELSE CallbackArgs(Plain(error), Null)

\* catch (error): what the callback is called with.
CatchBlock(error) ==
    IF isRecoverableError(error)
    THEN CallbackArgs(Recoverable(error), Null)
    ELSE CallbackArgs(Plain(error), Null)

\* callback(null, result)
SuccessCallback(result) == CallbackArgs(NullErr, result)

\* REPLServer's finish(e, ret), the callback: a Recoverable error appends the
\* line to the buffered command, anything else clears it.
finish(buffer, cmd, e) ==
    IF e.wrapper = "Recoverable" THEN buffer \o <<cmd>> ELSE <<>>

\* REPLServer's 'line' listener: evalCmd = bufferedCommand + cmd + "\n"
evalCmd(buffer, cmd) == Text(FALSE, buffer \o <<cmd>>)

Remove(seq, i) == SubSeq(seq, 1, i - 1) \o SubSeq(seq, i + 1, Len(seq))

\* evaluateCode(code, _, fileName, callback) up to its first await.
Activation(turn, srv, cmd, choice) ==
    LET code == evalCmd(servers[srv].buffer, cmd)
        c == compile(FileName(srv), code, choice)
    IN  [id |-> TurnId(turn, srv), srv |-> srv, cmd |-> cmd, code |-> code,
         pc |-> "compile", compileIn |-> c.input, compileCalls |-> c.calls,
         compiled |-> c.out,
         invocations |-> <<>>, result |-> Returned(Undefined)]

NoCallback ==
    [srv |-> 0, cmd |-> "", stage |-> "none", thrown |-> NoError,
     err |-> NullErr, result |-> Null, invocations |-> <<>>]

\* The callback is called for activation i, whose script made `invocations`:
\* the server's finish runs.
Callback(i, stage, thrown, invocations, cb) ==
    LET a == inflight[i]
        after == finish(servers[a.srv].buffer, a.cmd, cb.err)
    IN  /\ servers' = [servers EXCEPT ![a.srv].buffer = after]
        /\ inflight' = Remove(inflight, i)
        /\ lastCb' = [srv |-> a.srv, cmd |-> a.cmd, stage |-> stage,
                      thrown |-> thrown, err |-> cb.err, result |-> cb.result,
                      invocations |-> invocations]
        /\ UNCHANGED escapes

FailCompileUnclassified(i, stage, thrown, invocations) ==
    IF stage = "compile"
    THEN Callback(i, stage, thrown, invocations, CallbackArgs(Plain(thrown), Null))
    ELSE IF TryCovers(stage) /\ ~isRecoverableErrorThrows(thrown)
    THEN Callback(i, stage, thrown, invocations, CatchBlock(thrown))
    ELSE /\ inflight' = Remove(inflight, i)
         /\ escapes' = escapes + 1
         /\ UNCHANGED <<servers, lastCb>>

\* An error thrown at `stage` of activation i: caught and classified, or, when
\* nothing catches it or the catch block itself throws, it rejects the promise
\* evaluateCode returned and no callback is made.
Fail(i, stage, thrown, invocations) ==
    IF TryCovers(stage) /\ ~isRecoverableErrorThrows(thrown)
    THEN Callback(i, stage, thrown, invocations, CatchBlock(thrown))
    ELSE /\ inflight' = Remove(inflight, i)
         /\ escapes' = escapes + 1
         /\ UNCHANGED <<servers, lastCb>>

-----------------------------------------------------------------------------
(* Repl.addMethod, Repl.registerCustomMethods, Repl.run *)

\* this.customMethods[methodName] = { handler, options }
addMethodEntry(methods, methodName, handler) ==
    [methods EXCEPT ![methodName] = handler]

registerCustomMethodsSkipped(methods, ctx) == ctx

\* this.server.context[methodName] = (...args) => handler(this, ...args), for
\* every entry of customMethods.
registerCustomMethods(methods, ctx) ==
    [n \in ContextNames |->
        IF n \in MethodNames /\ methods[n] # NoHandler
        THEN MethodBinding(methods[n])
        ELSE ctx[n]]

-----------------------------------------------------------------------------
(* Actions *)

InitSession ==
    /\ customMethods = [m \in MethodNames |-> NoHandler]
    /\ servers = <<>>
    /\ context = [n \in ContextNames |-> Unbound]
    /\ inflight = <<>>
    /\ lastCb = NoCallback
    /\ escapes = 0
    /\ submitted = 0
    /\ lastAdd = [m \in MethodNames |-> NoHandler]

Init ==
    /\ InitSession
    /\ probe = [name |-> "", pre |-> "", core |-> "", post |-> ""]
    /\ verdict = "idle"

addMethod(methodName, handler) ==
    /\ customMethods' = addMethodEntry(customMethods, methodName, handler)
    /\ lastAdd' = [lastAdd EXCEPT ![methodName] = handler]
    /\ UNCHANGED <<servers, context, inflight, lastCb, escapes, submitted,
                   probe, verdict>>

\* run(): startReplServer(), registerCustomMethods(), defineCustomCommands()
runBody ==
    /\ servers' = Append(servers, [buffer |-> <<>>])
    /\ context' = registerCustomMethods(customMethods, context)
    /\ UNCHANGED <<customMethods, inflight, lastCb, escapes, submitted,
                   lastAdd, probe, verdict>>

\* The host program calls run() once (src/unnamed/part_001, line 22).
run ==
    /\ Len(servers) = 0
    /\ runBody

\* A line arrives on the input stream: every server's listener evaluates it.
onLine(cmd, choice) ==
    /\ Len(servers) >= 1
    /\ submitted < MaxTurns
    /\ submitted' = submitted + 1
    /\ inflight' = inflight \o
            [s \in 1..Len(servers) |-> Activation(submitted + 1, s, cmd, choice)]
    /\ UNCHANGED <<customMethods, servers, context, lastCb, escapes,
                   lastAdd, probe, verdict>>

evalAfterCompileRunsAnyway(i) ==
    /\ i \in 1..Len(inflight)
    /\ inflight[i].pc = "compile"
    /\ LET a == inflight[i]
           r == runInThisContext(a.compiled.text, context)
       IN  /\ context' = r.ctx
           /\ IF ~a.compiled.ok
              THEN Fail(i, "compile", a.compiled.err, r.invocations)
              ELSE IF r.out.kind = "throw"
              THEN Fail(i, "execute", r.out.err, r.invocations)
              ELSE /\ inflight' = [inflight EXCEPT ![i].pc = "result",
                                                   ![i].invocations = r.invocations,
                                                   ![i].result = r.out]
                   /\ UNCHANGED <<servers, lastCb, escapes>>
    /\ UNCHANGED <<customMethods, submitted, lastAdd, probe, verdict>>

\* `await this.compiler.compile(...)` settles; on success the compiled code runs.
evalAfterCompile(i) ==
    /\ i \in 1..Len(inflight)
    /\ inflight[i].pc = "compile"
    /\ LET a == inflight[i]
           r == runInThisContext(a.compiled.text, context)
       IN  IF ~a.compiled.ok
           THEN /\ Fail(i, "compile", a.compiled.err, <<>>)
                /\ UNCHANGED context
           ELSE /\ context' = r.ctx
                /\ IF r.out.kind = "throw"
                   THEN Fail(i, "execute", r.out.err, r.invocations)
                   ELSE /\ inflight' = [inflight EXCEPT ![i].pc = "result",
                                                        ![i].invocations = r.invocations,
                                                        ![i].result = r.out]
                        /\ UNCHANGED <<servers, lastCb, escapes>>
    /\ UNCHANGED <<customMethods, submitted, lastAdd, probe, verdict>>

NotAwaited(out) ==
    IF out.kind = "promise" THEN Returned(Val("promise", 0, "")) ELSE out

\* `await` applied to what vm.runInThisContext returned: a promise gives way to
\* its settled outcome, any other value is itself.
Awaited(out) ==
    IF out.kind = "promise"
    THEN IF out.err # NoError THEN Thrown(out.err) ELSE Returned(out.val)
    ELSE out

\* `await vm.runInThisContext(...)` settles: the value, or the promise's outcome.
evalAfterResult(i) ==
    /\ i \in 1..Len(inflight)
    /\ inflight[i].pc = "result"
    /\ LET a == inflight[i]
           r == Awaited(a.result)
       IN  IF r.kind = "throw"
           THEN Fail(i, "await", r.err, a.invocations)
           ELSE Callback(i, "none", NoError, a.invocations, SuccessCallback(r.val))
    /\ UNCHANGED <<customMethods, context, submitted, lastAdd, probe, verdict>>

Next ==
    \/ \E m \in MethodNames, h \in Handlers : addMethod(m, h)
    \/ run
    \/ \E l \in Lines, c \in CompileChoices : onLine(l, c)
    \/ \E i \in 1..Len(inflight) : evalAfterCompile(i)
    \/ \E i \in 1..Len(inflight) : evalAfterResult(i)

Spec == Init /\ [][Next]_vars

-----------------------------------------------------------------------------
(* A host program that calls run() again on the same session *)

\* run() holds no guard: every call starts another server on process.stdin.
rerun ==
    /\ Len(servers) < MaxRuns
    /\ runBody

NextRerun ==
    \/ \E m \in MethodNames, h \in Handlers : addMethod(m, h)
    \/ rerun
    \/ \E l \in Lines, c \in CompileChoices : onLine(l, c)
    \/ \E i \in 1..Len(inflight) : evalAfterCompile(i)
    \/ \E i \in 1..Len(inflight) : evalAfterResult(i)

SpecRerun == Init /\ [][NextRerun]_vars

-----------------------------------------------------------------------------
(* A host program whose handlers can throw *)

NextThrowingHandlers ==
    \/ \E m \in MethodNames, h \in Handlers \cup ThrowingHandlers : addMethod(m, h)
    \/ run
    \/ \E l \in Lines, c \in CompileChoices : onLine(l, c)
    \/ \E i \in 1..Len(inflight) : evalAfterCompile(i)
    \/ \E i \in 1..Len(inflight) : evalAfterResult(i)

SpecThrowingHandlers == Init /\ [][NextThrowingHandlers]_vars

-----------------------------------------------------------------------------
(* The Repl without a compiler (src/unnamed/part_000): evaluateCode is      *)
(* synchronous, so a line is read, run and answered in one step             *)

\* catch (error) { if (this.isRecoverableError(error)) return callback(new
\* Recoverable(error)) }: any other error is dropped there, and control goes
\* on to callback(null, result) with result never assigned.
PlainCatchBlock(error) ==
    IF isRecoverableError(error)
    THEN CallbackArgs(Recoverable(error), Undefined)
    ELSE CallbackArgs(NullErr, Undefined)

\* run(): startReplServer(), defineCustomCommands()
runPlain ==
    /\ Len(servers) = 0
    /\ servers' = Append(servers, [buffer |-> <<>>])
    /\ UNCHANGED <<customMethods, context, inflight, lastCb, escapes, submitted,
                   lastAdd, probe, verdict>>

\* A line arrives: the server calls evaluateCode(code, _, __, callback), which
\* runs the code as it is and calls back before it returns.
onLinePlain(cmd) ==
    /\ Len(servers) = 1
    /\ submitted < MaxPlainTurns
    /\ submitted' = submitted + 1
    /\ LET code == evalCmd(servers[1].buffer, cmd)
           r == runInThisContext(code, context)
           threw == r.out.kind = "throw"
           cb == IF threw THEN PlainCatchBlock(r.out.err) ELSE SuccessCallback(r.out.val)
       IN  /\ context' = r.ctx
           /\ IF threw /\ isRecoverableErrorThrows(r.out.err)
              THEN /\ escapes' = escapes + 1
                   /\ UNCHANGED <<servers, lastCb>>
              ELSE /\ servers' = [servers EXCEPT ![1].buffer = finish(@, cmd, cb.err)]
                   /\ lastCb' = [srv |-> 1, cmd |-> cmd,
                                 stage |-> IF threw THEN "execute" ELSE "none",
                                 thrown |-> IF threw THEN r.out.err ELSE NoError,
                                 err |-> cb.err, result |-> cb.result,
                                 invocations |-> r.invocations]
                   /\ UNCHANGED escapes
    /\ UNCHANGED <<customMethods, inflight, lastAdd, probe, verdict>>

NextPlain ==
    \/ runPlain
    \/ \E l \in Lines : onLinePlain(l)

SpecPlain == Init /\ [][NextPlain]_vars

-----------------------------------------------------------------------------
(* isRecoverableError on its own: errors of every shape are put to it *)

ProbeNames == {"SyntaxError", "syntaxerror", "TypeError", "ReferenceError", "Error"}
ProbePre == {"", " ", "Invalid or "}
ProbeCore == {"Unexpected end of input", "Unexpected token", "unexpected token",
              "Unexpected End Of Input", "Unexpected end of", "Unexpected toke",
              "Unexpected identifier", "x is not defined", ""}
ProbePost == {"", " '}'", "s"}

Probes == [name : ProbeNames, pre : ProbePre, core : ProbeCore, post : ProbePost]

\* The error object a probe stands for: its message is the three parts joined.
ProbeError(p) == Err(p.name, p.pre \o p.core \o p.post)

ClassifierInit ==
    /\ InitSession
    /\ probe \in Probes
    /\ verdict = "pending"

classify ==
    /\ verdict = "pending"
    /\ verdict' = IF isRecoverableError(ProbeError(probe)) THEN "recoverable" ELSE "terminal"
    /\ UNCHANGED <<customMethods, servers, context, inflight, lastCb, escapes,
                   submitted, lastAdd, probe>>

nextProbe ==
    /\ verdict \in {"recoverable", "terminal"}
    /\ probe' \in Probes
    /\ verdict' = "pending"
    /\ UNCHANGED <<customMethods, servers, context, inflight, lastCb, escapes,
                   submitted, lastAdd>>

ClassifierNext == classify \/ nextProbe

SpecClassifier == ClassifierInit /\ [][ClassifierNext]_vars

-----------------------------------------------------------------------------
(* Properties *)

\* A step in which activation i reached its callback.
CallbackStep(i) ==
    /\ i \in 1..Len(inflight)
    /\ inflight' = Remove(inflight, i)
    /\ escapes' = escapes

\* A step in which a line was read.
SubmitStep == submitted' = submitted + 1

\* A step in which run() was called.
RunStep == Len(servers') = Len(servers) + 1

\* C1: isRecoverableError answers true exactly for the errors named
\* "SyntaxError" whose message starts, case-sensitively, with "Unexpected end
\* of input" or "Unexpected token", and false for every other name/message.
C1_ClassifierExact ==
    verdict \in {"recoverable", "terminal"} =>
        ((verdict = "recoverable") <=>
            /\ probe.name = "SyntaxError"
            /\ probe.pre = ""
            /\ probe.core \in {"Unexpected end of input", "Unexpected token"})

C1_Witness ==
    /\ verdict = "recoverable"
    /\ probe.core = "Unexpected token"
    /\ probe.post = " '}'"

\* C2: an error thrown by compile or execution that isRecoverableError
\* classifies as true reaches the callback as a Recoverable wrapper of that
\* error with no result, never as a plain failure or as a result.
C2_RecoverableSignalsMoreInput ==
    (lastCb.thrown # NoError /\ isRecoverableError(lastCb.thrown)) =>
        /\ lastCb.err = Recoverable(lastCb.thrown)
        /\ lastCb.result = Null

C2_Witness ==
    /\ lastCb.stage = "execute"
    /\ lastCb.thrown = Err("SyntaxError", "Unexpected end of input")
    /\ lastCb.err.wrapper = "Recoverable"

\* C3: no error leaves evaluateCode, and an error that is not classified
\* recoverable is handed to the callback as the turn's error with no result.
C3_TerminalErrorsDelivered ==
    /\ escapes = 0
    /\ (lastCb.thrown # NoError /\ ~isRecoverableError(lastCb.thrown)) =>
            /\ lastCb.err = Plain(lastCb.thrown)
            /\ lastCb.result = Null

\* C4: the context is never replaced or cleared: a binding a turn introduced
\* stays, with its value, for every later turn; after `const x = 5` succeeded
\* x is 5, and a successful `x + 1` yields 6.
C4_ContextPersists ==
    /\ [][\A n \in ContextNames :
            /\ context[n].kind \in {"value", "function"} => context'[n] = context[n]
            /\ context[n].kind = "method" => context'[n].kind = "method"]_vars
    /\ []((lastCb.cmd = LConst /\ lastCb.stage = "none") =>
            context["x"] = ValueBinding(Num(5)))
    /\ []((lastCb.cmd = LUse /\ lastCb.stage = "none") => lastCb.result = Num(6))

C4_Witness ==
    /\ lastCb.cmd = LUse
    /\ lastCb.stage = "none"
    /\ lastCb.result = Num(6)
    /\ submitted = 2

C6_EarlyRegistrationBound ==
    /\ [](Len(servers) = 0 => customMethods = lastAdd)
    /\ [][RunStep => \A m \in MethodNames :
            lastAdd[m] # NoHandler => context'[m] = MethodBinding(lastAdd[m])]_vars
    /\ [][\A m \in MethodNames :
            context[m].kind = "method" => context'[m].kind = "method"]_vars
    /\ [][\A i \in 1..Len(inflight) : \A m \in MethodNames :
            (/\ inflight[i].pc = "compile"
             /\ inflight[i].code.lines = <<LCall(m)>>
             /\ context[m].kind = "method"
             /\ inflight' = Remove(inflight, i))
            => (escapes' = escapes /\ lastCb'.stage = "compile")]_vars

C6_Witness ==
    /\ Len(servers) = 1
    /\ submitted = 1
    /\ context["notify"] = MethodBinding("hEcho")
    /\ lastCb.cmd = LCall("notify")
    /\ lastCb.result = Str("hi")

\* C7: once run() has been called, every method registered with addMethod is
\* bound in the context, also one registered after run().
C7_LateRegistrationBound ==
    Len(servers) >= 1 =>
        \A m \in MethodNames : customMethods[m] # NoHandler => context[m].kind = "method"

\* A step in which the compiled code of activation i ran to completion.
ExecutedStep(i) ==
    /\ i \in 1..Len(inflight)
    /\ inflight[i].pc = "compile"
    /\ Len(inflight') = Len(inflight)
    /\ inflight'[i].pc = "result"

\* C8: a turn that calls a bound custom method calls the handler bound under
\* that name exactly once, with the session first and the turn's arguments
\* after it, and the turn's result is what the handler returned; notify('hi')
\* with the writing handler writes "hi" once.
C8_HandlerCalledOnce ==
    /\ [](\A k \in 1..Len(lastCb.invocations) :
            lastCb.invocations[k].args = <<Str(Session)>> \o CallArgs)
    /\ [][\A i \in 1..Len(inflight) : \A m \in MethodNames :
            (ExecutedStep(i) /\ inflight[i].code.lines = <<LCall(m)>>) =>
                /\ context[m].kind = "method"
                /\ inflight'[i].invocations =
                        <<Invocation(context[m].handler, <<Str(Session)>> \o CallArgs)>>]_vars
    /\ [](\A m \in MethodNames :
            (lastCb.cmd = LCall(m) /\ lastCb.stage = "none") =>
                /\ Len(lastCb.invocations) = 1
                /\ lastCb.invocations[1].handler \in Handlers
                /\ lastCb.invocations[1].handler = "hEcho" => lastCb.result = Str("hi")
                /\ lastCb.invocations[1].handler = "hWrite" =>
                        /\ lastCb.result = Undefined
                        /\ Written(lastCb.invocations) = <<Str("hi")>>)

C8_Witness ==
    /\ lastCb.cmd = LCall("notify")
    /\ lastCb.stage = "none"
    /\ Written(lastCb.invocations) = <<Str("hi")>>

\* C9: the method bound in the context under a name invokes the handler of the
\* latest addMethod call for that name.
C9_LastWriteWins ==
    \A m \in MethodNames :
        context[m].kind = "method" => context[m].handler = lastAdd[m]

\* C10: at most one turn of a server is in evaluation at any time.
C10_OneTurnAtATime ==
    \A i, j \in 1..Len(inflight) :
        inflight[i].srv = inflight[j].srv => i = j

\* C11: however often run() is called, at most one REPL server (one 'line'
\* listener) is attached to the input stream.
C11_SingleServer == Len(servers) <= 1

\* A step in which activation i left evaluateCode.
EndStep(i) ==
    /\ i \in 1..Len(inflight)
    /\ inflight' = Remove(inflight, i)

\* C12: the compiler is given the transformed text of the turn, the code runs
\* only after the compile step and only when it succeeded, and a turn whose
\* compile step failed ends there: no statement of it runs, no handler is
\* called, and the context is what it was.
C12_CompileFailureSkipsExecution ==
    /\ [](\A i \in 1..Len(inflight) :
            inflight[i].compileIn.text = resultCode(inflight[i].code))
    /\ [][\A i \in 1..Len(inflight) :
            (EndStep(i) /\ inflight[i].pc = "compile" /\ ~inflight[i].compiled.ok) =>
                /\ context' = context
                /\ escapes' = escapes =>
                        /\ lastCb'.stage = "compile"
                        /\ lastCb'.thrown = inflight[i].compiled.err
                        /\ lastCb'.invocations = <<>>]_vars
    /\ [][\A i \in 1..Len(inflight) : ExecutedStep(i) => inflight[i].compiled.ok]_vars
    /\ [][context' # context =>
            \/ RunStep
            \/ \E i \in 1..Len(inflight) :
                    /\ inflight[i].pc = "compile"
                    /\ inflight[i].compiled.ok
                    /\ EndStep(i) \/ ExecutedStep(i)]_vars

C12_Witness ==
    /\ lastCb.cmd = LConst
    /\ lastCb.stage = "compile"
    /\ lastCb.thrown.name = "TSError"
    /\ context["x"] = Unbound
    /\ submitted = 1

\* The steps of a turn at which an error can be thrown.
ThrowingStages == {"compile", "execute", "await"}

\* C13: whichever step of the turn threw, the callback's signal is decided by
\* the error's name and message alone: the Recoverable wrapper exactly when
\* isRecoverableError holds of it, the error itself otherwise, no result either
\* way; two turns that threw the same error at different steps got the same
\* signal.
C13_ClassifiedAlikeAtEveryStep ==
    /\ [](lastCb.stage \in ThrowingStages =>
            /\ lastCb.err.err = lastCb.thrown
            /\ lastCb.err.wrapper =
                    IF isRecoverableError(lastCb.thrown) THEN "Recoverable" ELSE "none"
            /\ lastCb.result = Null)
    /\ [][(/\ lastCb.stage \in ThrowingStages
           /\ lastCb'.stage \in ThrowingStages
           /\ lastCb'.thrown = lastCb.thrown) => lastCb'.err = lastCb.err]_vars

C13_Witness ==
    /\ lastCb.stage = "compile"
    /\ lastCb.thrown = Err("SyntaxError", "Unexpected end of input")
    /\ lastCb.err = Recoverable(lastCb.thrown)
    /\ servers[lastCb.srv].buffer = <<LOpen>>

\* C14: a turn that ended because a custom method's handler threw is a
\* terminal failure: the callback gets the handler's error itself, unwrapped,
\* with no result, and the server's buffer is empty afterwards.
C14_HandlerErrorIsTerminal ==
    (/\ lastCb.stage = "execute"
     /\ Len(lastCb.invocations) >= 1
     /\ lastCb.invocations[Len(lastCb.invocations)].handler \in ThrowingHandlers) =>
        /\ lastCb.err = Plain(lastCb.thrown)
        /\ lastCb.result = Null
        /\ servers[lastCb.srv].buffer = <<>>

C16_NoRewritePassesOriginal ==
    \A i \in 1..Len(inflight) :
        LET a == inflight[i] IN
        /\ Len(a.compileCalls) = 1
        /\ a.compileCalls[1].fileName = FileName(a.srv)
        /\ ~processTopLevelAwait(a.code).rewritten =>
                /\ a.compileCalls[1].text = a.code
                /\ a.compileCalls[1].text.lines[Len(a.code.lines)] = a.cmd

C16_Witness ==
    /\ Len(inflight) = 1
    /\ inflight[1].code.lines = <<LJson, LUse>>
    /\ ~HasTopLevelAwait(inflight[1].code.lines)
    /\ inflight[1].compileCalls = <<[fileName |-> FileName(1), text |-> inflight[1].code]>>

\* C17: in the Repl without a compiler, a turn whose code threw an error that
\* is not classified recoverable hands that error to the callback, and is not
\* answered as a success.
C17_PlainTerminalErrorDelivered ==
    (lastCb.stage = "execute" /\ ~isRecoverableError(lastCb.thrown)) =>
        /\ lastCb.err # NullErr
        /\ lastCb.err.err = lastCb.thrown

\* The calls of evaluateCode that have settled, one per line and server, and
\* those of them that ended without a callback.
SettledCalls == submitted * Len(servers) - Len(inflight)
SettledWithoutCallback == escapes

\* C18: every call of evaluateCode that has settled has made its callback, and
\* a callback carries an error with no result or no error with a result, never
\* both.
C18_CallbackExactlyOnce ==
    /\ SettledCalls >= 1 => SettledWithoutCallback = 0
    /\ lastCb.err # NullErr => lastCb.result \in {Null, Undefined}

\* A text no continuation line can repair: a "}" that closes nothing stops the
\* parser whatever follows, and a top-level JSON.parse('}') throws before any
\* later line runs.
Unrepairable(lines) ==
    \/ ScanDepth(lines, 1, 0) = -1
    \/ \E i \in 1..Len(lines) : lines[i] = LJson /\ DepthBefore(lines, i) = 0

\* C19: a server never keeps an unrepairable text as its buffered command: the
\* turn that produced it ended as a terminal failure and cleared the buffer.
C19_UnrepairableIsTerminal ==
    \A s \in 1..Len(servers) : ~Unrepairable(servers[s].buffer)

====
